---------------------------- MODULE Spec2Model ----------------------------
(***************************************************************************)
(* A model of the RPC generator (src/src/main.rs): main seeds a random     *)
(* source, generate_transactions composes a base transaction generator     *)
(* with take(count) and filter(from == filter_from), enumerates what is    *)
(* left and collects it into the reported requests.                        *)
(*                                                                         *)
(* The two base generators (mod generator: RandomTransactions and          *)
(* WinnerLoser) are declared in main.rs but their file is not part of the  *)
(* sources; their step is modelled from the design document (sections 4.2  *)
(* and 7).  Balances are modelled as mathematical integers: the transfer   *)
(* arithmetic lives in the missing file, so the width of its additions is  *)
(* not modelled; a debit below zero shows up as a negative balance.        *)
(***************************************************************************)
EXTENDS Integers, Sequences, FiniteSets, TLC

\* ------------------------------------------------------------------ bounds
MaxAccounts == 3    \* accounts in the configured pool: 0..MaxAccounts
MaxBalance == 1     \* configured balance of one account: 0..MaxBalance
MaxCount == 3       \* a configured count: 0..MaxCount
MaxPulls == 3       \* pulls of the base generator that the model follows
MaxSeed == 1        \* seeds: 0..MaxSeed
MaxChunk == 2       \* a configured chunk size: 0..MaxChunk
MaxAmount == 300    \* amounts rendered on their own: 0..MaxAmount

\* ------------------------------------------------------------- Option<T>
None == <<>>
Some(v) == <<v>>
Unwrap(o) == o[1]

\* config.chunk_size before main reads it: nothing depends on it until then,
\* so it is drawn where main reads it.  No usize is negative.
Unread == <<-1>>

\* ------------------------------------------------------------ the inputs
AccountIds == <<"a", "b", "c", "d", "e", "f">>
Seeds == 0..MaxSeed
GeneratorTypes == {"random", "winner-loser", "other"}

\* Config.accounts: the first k ids, each with a parsed balance.  No id occurs
\* twice in a pool (section 3 of the design document: a precondition of the
\* pool's construction).
Pools ==
    UNION { { [i \in 1..k |-> [id |-> AccountIds[i], balance |-> b[i]]] :
              b \in [1..k -> 0..MaxBalance] } : k \in 0..MaxAccounts }

\* Config.passwords: one password per configured account id.
PasswordsOf(config_accounts) ==
    [id \in {config_accounts[i].id : i \in 1..Len(config_accounts)} |->
        "pw-" \o id]

VARIABLES
    generator_type,  \* config.generator after unwrap_or("random")
    config_accounts, \* the pool as parsed from the configuration
    count,           \* config.count: Option<usize>
    filter_from,     \* config.filter_from: Option<AccountId>
    seed,            \* config.seed: Option<usize>
    pc,              \* "main", "gen", "returned", "panicked", "done"
    rng_seed,        \* the seed the random source was built from
    accounts,        \* config.accounts, mutated by the generator
    n,               \* Take's remaining count (None: no Take)
    pulled,          \* history: every triple the base generator yielded
    transactions,    \* the requests collected so far
    tape,            \* per seed, the draws its random source has produced
    rerun,           \* a second, independent run over the same inputs
    chunk_size,      \* config.chunk_size: Option<usize>, once main reads it
    files,           \* the output files: files[k] is written to OUTPUT.(k-1)
    report,          \* the final balances main prints (None: not printed)
    amount,          \* an amount handed to the renderer on its own
    rendered         \* its rendering (None: not rendered yet)

config == <<generator_type, config_accounts, count, filter_from, seed>>
run1 == <<pc, rng_seed, accounts, n, pulled, transactions>>
output == <<chunk_size, files, report>>
render == <<amount, rendered>>
vars == <<config, run1, tape, rerun, output, render>>

\* ------------------------------------------------------ pure helpers
RECURSIVE SumBalances(_)
SumBalances(accs) ==
    IF accs = <<>> THEN 0
    ELSE Head(accs).balance + SumBalances(Tail(accs))

HexDigits == <<"0", "1", "2", "3", "4", "5", "6", "7",
               "8", "9", "a", "b", "c", "d", "e", "f">>

RECURSIVE Decimal(_)
Decimal(value) ==
    IF value < 10 THEN HexDigits[value + 1]
    ELSE Decimal(value \div 10) \o HexDigits[(value % 10) + 1]
\* format!("{:x}", value)
RECURSIVE LowerHex(_)
LowerHex(value) ==
    IF value < 16 THEN HexDigits[value + 1]
    ELSE LowerHex(value \div 16) \o HexDigits[(value % 16) + 1]

\* Transaction { from, to, value: format!("0x{:x}", value) } wrapped with the
\* sender's password and the request id.
Request(id, tx, password) ==
    [id |-> id, from |-> tx[1], to |-> tx[2],
     value |-> "0x" \o LowerHex(tx[3]), password |-> password]

\* let seed = config.seed.unwrap_or_else(|| rand::thread_rng().gen());
EntropySeed(cfg_seed, entropy) == entropy
EffectiveSeed(cfg_seed, entropy) ==
    IF cfg_seed # None THEN Unwrap(cfg_seed) ELSE entropy

\* ------------------------------------------- the base generators (design)
NeverExhausted(accs) == FALSE
\* No account can send: the sequence ends (section 7, generation exhaustion).
AllZero(accs) == \A i \in 1..Len(accs) : accs[i].balance = 0

\* A pool of fewer than two accounts is an error for the generator
\* (section 4.1, section 7: fatal, reported immediately).
GeneratorNew(accs) == Len(accs) >= 2

\* Winner-Loser: the designation is derived from the seed.
Winners(s, accs) == {(s % Len(accs)) + 1}

AnyPair(gt, s, accs, f, t) ==
    gt = "winner-loser" => (f \in Winners(s, accs)) # (t \in Winners(s, accs))
\* The sender and the receiver one step may select.
LegalPair(gt, s, accs, f, t) ==
    /\ f # t
    /\ gt = "winner-loser" => (f \in Winners(s, accs)) # (t \in Winners(s, accs))

OverdrawnAmounts(balance) == 0..(balance + 1)
\* 0 <= amount <= sender.balance
Amounts(balance) == 0..balance

\* The values a random source can hand to one step: two positions of the
\* pool and an amount.
Draws(accs) ==
    { [from |-> f, to |-> t, amount |-> a] :
        f \in 1..Len(accs), t \in 1..Len(accs),
        a \in 0..(SumBalances(accs) + 1) }

\* What one step of the generator accepts from its random source.
LegalDraw(gt, s, accs, d) ==
    /\ LegalPair(gt, s, accs, d.from, d.to)
    /\ d.amount \in Amounts(accs[d.from].balance)

SwapParties(accs, d) ==
    [i \in 1..Len(accs) |->
        IF i = d.from THEN [accs[d.to] EXCEPT !.balance = @ + d.amount]
        ELSE IF i = d.to THEN [accs[d.from] EXCEPT !.balance = @ - d.amount]
        ELSE accs[i]]
CreditOnly(accs, d) ==
    [accs EXCEPT ![d.to].balance = @ + d.amount]
\* sender.balance -= amount; receiver.balance += amount
Transfer(accs, d) ==
    [[accs EXCEPT ![d.from].balance = @ - d.amount]
           EXCEPT ![d.to].balance = @ + d.amount]

Triple(accs, d) == <<accs[d.from].id, accs[d.to].id, d.amount>>

\* -------------------------------------------------- generate_transactions
AnyGenerator(gt) == TRUE
\* "random" => ..., "winner-loser" => ..., _ => panic!(...)
KnownGenerator(gt) == gt \in {"random", "winner-loser"}

EnumerateBeforeFilter(reported, yielded) == yielded
\* generator.enumerate(), after take and filter: the id of the next request,
\* with reported requests collected and yielded triples pulled so far.
EnumerateId(reported, yielded) == reported

ReceiverKey(tx) == tx[2]
\* passwords[&from]
SenderKey(tx) == tx[1]

OffByOneTake(cnt) == IF cnt = None THEN None ELSE Some(Unwrap(cnt) + 1)
\* Some(count) => generator.take(count); None => generator
Take(cnt) == cnt

FilterNonZero(tx, ff) == (ff = None \/ tx[1] = Unwrap(ff)) /\ tx[3] > 0
FilterTo(tx, ff) == ff = None \/ tx[2] = Unwrap(ff)
\* generator.filter(move |&(ref from, _, _)| from == &filter_from)
FilterKeeps(tx, ff) == ff = None \/ tx[1] = Unwrap(ff)

RollBackDiscarded(accs, d, keep) == IF keep THEN Transfer(accs, d) ELSE accs
\* The filter wraps the generator: what it sees has already been applied.
AccountsAfterPull(accs, d, keep) == Transfer(accs, d)

RunInit ==
    [pc |-> "main", rng_seed |-> None, accounts |-> config_accounts,
     n |-> None, pulled |-> <<>>, transactions |-> <<>>]

\* main from the seed to the call, and generate_transactions up to the chain
\* of iterators.
StartRun(r, entropy) ==
    LET s == EffectiveSeed(seed, entropy) IN
    IF ~KnownGenerator(generator_type)
    THEN [r EXCEPT !.rng_seed = Some(s), !.pc = "panicked"]
    ELSE IF ~GeneratorNew(r.accounts)
    THEN [r EXCEPT !.rng_seed = Some(s), !.pc = "panicked"]
    ELSE [r EXCEPT !.rng_seed = Some(s), !.pc = "gen", !.n = Take(count)]

\* Take::next yields None without pulling once its count is used up.
TakeDone(r) == r.n # None /\ Unwrap(r.n) = 0

\* The pull reaches the base generator and the generator draws.
Drawing(r) == r.pc = "gen" /\ ~TakeDone(r) /\ ~AllZero(r.accounts)

\* One pull of the collect loop through filter, take and the base generator;
\* d is the generator's draw (unused when nothing is drawn).
PullRun(r, d) ==
    IF TakeDone(r) THEN [r EXCEPT !.pc = "returned"]
    ELSE
      LET n1 == IF r.n = None THEN None ELSE Some(Unwrap(r.n) - 1) IN
      IF AllZero(r.accounts) THEN [r EXCEPT !.n = n1, !.pc = "returned"]
      ELSE
        LET tx == Triple(r.accounts, d)
            keep == FilterKeeps(tx, filter_from)
            passwords == PasswordsOf(config_accounts)
        IN  IF keep /\ SenderKey(tx) \notin DOMAIN passwords
            THEN [r EXCEPT !.n = n1, !.pc = "panicked",
                           !.accounts = AccountsAfterPull(r.accounts, d, keep),
                           !.pulled = Append(@, tx)]
            ELSE [r EXCEPT !.n = n1,
                           !.accounts = AccountsAfterPull(r.accounts, d, keep),
                           !.pulled = Append(@, tx),
                           !.transactions =
                               IF keep
                               THEN Append(@, Request(
                                        EnumerateId(Len(@), Len(r.pulled)),
                                        tx, passwords[SenderKey(tx)]))
                               ELSE @]

\* The random source of seed s is a fixed stream: a draw it has produced
\* before is produced again at the same position, a new one is recorded.
ReadTape(r, d) ==
    LET s == Unwrap(r.rng_seed)
        k == Len(r.pulled) + 1
    IN  /\ LegalDraw(generator_type, s, r.accounts, d)
        /\ IF k <= Len(tape[s])
           THEN d = tape[s][k] /\ UNCHANGED tape
           ELSE tape' = [tape EXCEPT ![s] = Append(@, d)]

\* ------------------------------------------------------- main: the output
RECURSIVE ChunksExact(_, _)
ChunksExact(items, size) ==
    IF Len(items) < size THEN <<>>
    ELSE <<SubSeq(items, 1, size)>>
         \o ChunksExact(SubSeq(items, size + 1, Len(items)), size)
\* transactions.chunks(chunk_size), for chunk_size > 0
RECURSIVE Chunks(_, _)
Chunks(items, size) ==
    IF items = <<>> THEN <<>>
    ELSE IF Len(items) <= size THEN <<items>>
    ELSE <<SubSeq(items, 1, size)>>
         \o Chunks(SubSeq(items, size + 1, Len(items)), size)

\* println!("{}:\t{}", account.id.0, account.balance) for every account
FinalReport(accs) == Some([i \in 1..Len(accs) |-> <<accs[i].id, accs[i].balance>>])

WhileGenerating(r) == r.pc \in {"gen", "returned"}
\* let transactions: Vec<_> = generate_transactions(...): main goes on once
\* the call has returned.
OutputReady(r) == r.pc = "returned"

Run == [pc |-> pc, rng_seed |-> rng_seed, accounts |-> accounts,
        n |-> n, pulled |-> pulled, transactions |-> transactions]

SetRun(r) ==
    /\ pc' = r.pc
    /\ rng_seed' = r.rng_seed
    /\ accounts' = r.accounts
    /\ n' = r.n
    /\ pulled' = r.pulled
    /\ transactions' = r.transactions

\* ------------------------------------------------------------- the actions
Init ==
    /\ generator_type \in GeneratorTypes
    /\ config_accounts \in Pools
    /\ count \in {None} \cup {Some(c) : c \in 0..MaxCount}
    /\ filter_from \in {None} \cup {Some(AccountIds[i]) : i \in 1..MaxAccounts}
    /\ seed \in {None} \cup {Some(s) : s \in Seeds}
    /\ pc = "main"
    /\ rng_seed = None
    /\ accounts = config_accounts
    /\ n = None
    /\ pulled = <<>>
    /\ transactions = <<>>
    /\ tape = [s \in Seeds |-> <<>>]
    /\ rerun = RunInit
    /\ chunk_size = Unread
    /\ files = <<>>
    /\ report = None
    /\ amount = 0
    /\ rendered = None

Start ==
    /\ pc = "main"
    /\ \E entropy \in Seeds : SetRun(StartRun(Run, entropy))
    /\ UNCHANGED <<config, tape, rerun, output, render>>

Pull ==
    /\ Drawing(Run)
    /\ Len(pulled) < MaxPulls
    /\ \E d \in Draws(accounts) :
          /\ ReadTape(Run, d)
          /\ SetRun(PullRun(Run, d))
    /\ UNCHANGED <<config, rerun, output, render>>

Finish ==
    /\ pc = "gen"
    /\ ~Drawing(Run)
    /\ SetRun(PullRun(Run, None))
    /\ UNCHANGED <<config, tape, rerun, output, render>>

\* main from the chunk size to the final balances: chunks(0) panics before
\* any file is created.
WriteOutput ==
    /\ OutputReady(Run)
    /\ \E cs \in {None} \cup {Some(c) : c \in 0..MaxChunk} :
          LET size == IF cs = None THEN Len(transactions) ELSE Unwrap(cs) IN
          /\ chunk_size' = cs
          /\ IF size = 0
             THEN pc' = "panicked" /\ UNCHANGED <<files, report>>
             ELSE /\ files' = Chunks(transactions, size)
                  /\ report' = FinalReport(accounts)
                  /\ pc' = "done"
    /\ UNCHANGED <<config, rng_seed, accounts, n, pulled, transactions,
                   tape, rerun, render>>

\* The amount of one transaction handed to the request's rendering.
RenderValue ==
    /\ rendered = None
    /\ rendered' = Some(Request(0, <<"a", "b", amount>>, "pw-a").value)
    /\ UNCHANGED <<config, run1, tape, rerun, output, amount>>

\* A second run of the program over the same configuration, started once
\* the first has ended; the runs share nothing but the configuration.
RerunStart ==
    /\ pc \in {"returned", "panicked"}
    /\ seed # None
    /\ rerun.pc = "main"
    /\ \E entropy \in Seeds : rerun' = StartRun(rerun, entropy)
    /\ UNCHANGED <<config, run1, tape, output, render>>

RerunPull ==
    /\ Drawing(rerun)
    /\ Len(rerun.pulled) < MaxPulls
    /\ \E d \in Draws(rerun.accounts) :
          /\ ReadTape(rerun, d)
          /\ rerun' = PullRun(rerun, d)
    /\ UNCHANGED <<config, run1, output, render>>

RerunFinish ==
    /\ rerun.pc = "gen"
    /\ ~Drawing(rerun)
    /\ rerun' = PullRun(rerun, None)
    /\ UNCHANGED <<config, run1, tape, output, render>>

Generate == Start \/ Pull \/ Finish

Next == Generate \/ WriteOutput

Spec == Init /\ [][Next]_vars

NextDet == Generate \/ RerunStart \/ RerunPull \/ RerunFinish

SpecDet == Init /\ [][NextDet]_vars

\* The rendering of an amount on its own: every amount up to MaxAmount.
InitHex ==
    /\ generator_type = "random"
    /\ config_accounts = <<>>
    /\ count = None
    /\ filter_from = None
    /\ seed = None
    /\ pc = "main"
    /\ rng_seed = None
    /\ accounts = <<>>
    /\ n = None
    /\ pulled = <<>>
    /\ transactions = <<>>
    /\ tape = [s \in Seeds |-> <<>>]
    /\ rerun = RunInit
    /\ chunk_size = Unread
    /\ files = <<>>
    /\ report = None
    /\ amount \in 0..MaxAmount
    /\ rendered = None

NextHex == RenderValue

SpecHex == InitHex /\ [][NextHex]_vars

\* ---------------------------------------------------------------- claims
Ended(r) == r.pc \in {"returned", "panicked"}

PoolIds(accs) == {accs[i].id : i \in 1..Len(accs)}

\* The amounts of the triples of txs whose party at position side (1: the
\* sender, 2: the receiver) is id, summed.
RECURSIVE SumAmounts(_, _, _)
SumAmounts(txs, side, id) ==
    IF txs = <<>> THEN 0
    ELSE (IF Head(txs)[side] = id THEN Head(txs)[3] ELSE 0)
         + SumAmounts(Tail(txs), side, id)

BalanceOf(accs, id) ==
    LET i == CHOOSE j \in 1..Len(accs) : accs[j].id = id IN accs[i].balance

\* C1: balance conservation: in every reachable state the balances of the
\* pool sum to what the configured balances sum to, under either strategy.
C1_BalanceConservation ==
    SumBalances(accounts) = SumBalances(config_accounts)

C1_Witness ==
    /\ Len(pulled) >= 2
    /\ \A k \in 1..Len(pulled) : pulled[k][3] > 0
    /\ accounts # config_accounts

\* C2: every generated transaction has 0 <= amount <= the sender's balance
\* right before it, and no balance is ever below 0.
C2_AmountBounded ==
    Len(pulled') = Len(pulled) + 1 =>
        LET tx == pulled'[Len(pulled')] IN
        /\ 0 <= tx[3]
        /\ tx[3] <= BalanceOf(accounts, tx[1])

C2_NonNegative == \A i \in 1..Len(accounts) : accounts[i].balance >= 0

C2_BoundedAmountNonNegative == [][C2_AmountBounded]_vars /\ []C2_NonNegative

C2_Witness ==
    /\ pulled # <<>>
    /\ pulled[Len(pulled)][3] > 0
    /\ BalanceOf(accounts, pulled[Len(pulled)][1]) = 0

\* C3: two runs over the same seed, pool, strategy, count and filter end with
\* the same outcome, the same reported sequence and the same balances.
C3_Determinism ==
    (seed # None /\ Ended(Run) /\ Ended(rerun)) =>
        /\ rerun.pc = pc
        /\ rerun.pulled = pulled
        /\ rerun.transactions = transactions
        /\ rerun.accounts = accounts

C3_Witness ==
    /\ seed # None
    /\ pc = "returned"
    /\ rerun.pc = "returned"
    /\ Len(rerun.transactions) >= 2
    /\ rerun.accounts # config_accounts

\* C4: every transaction either strategy yields has from # to.
C4_DistinctParties ==
    \A k \in 1..Len(pulled) : pulled[k][1] # pulled[k][2]

C4_Witness ==
    /\ generator_type = "winner-loser"
    /\ Len(config_accounts) >= 3
    /\ Len(pulled) >= 2

\* C5: with a count N and a filter-from id T of the pool, and a generator
\* that keeps yielding, the returned output has exactly N elements: Take
\* bounds the filtered stream.
C5_TakeAfterFilter ==
    (/\ pc = "returned"
     /\ count # None
     /\ filter_from # None
     /\ Unwrap(filter_from) \in PoolIds(config_accounts)
     /\ ~AllZero(config_accounts)) =>
        Len(transactions) = Unwrap(count)

\* C6: with count = N at most N transactions are returned and at most N are
\* pulled from the base generator; with N = 0 nothing is reported and no
\* balance changes.
C6_TakeBound ==
    count # None =>
        /\ Len(transactions) <= Unwrap(count)
        /\ Len(pulled) <= Unwrap(count)
        /\ Unwrap(count) = 0 =>
              (transactions = <<>> /\ accounts = config_accounts)

C6_Witness ==
    /\ pc = "returned"
    /\ count # None
    /\ Unwrap(count) >= 2
    /\ Len(pulled) = Unwrap(count)

\* C7: with a filter-from id T the reported transactions are exactly the
\* pulled transactions whose sender is T, in the order they were pulled.
SentBy(txs, id) == SelectSeq(txs, LAMBDA tx : tx[1] = id)

C7_FilterCorrect ==
    filter_from # None =>
        LET kept == SentBy(pulled, Unwrap(filter_from)) IN
        /\ Len(transactions) = Len(kept)
        /\ \A k \in 1..Len(kept) :
              /\ transactions[k].from = kept[k][1]
              /\ transactions[k].to = kept[k][2]
              /\ transactions[k].value = "0x" \o LowerHex(kept[k][3])

C7_Witness ==
    /\ pc = "returned"
    /\ filter_from # None
    /\ Len(transactions) >= 1
    /\ Len(transactions) < Len(pulled)
    /\ pulled[1][1] # Unwrap(filter_from)

\* C8: each balance is the configured balance plus what the account received
\* minus what it sent over every pulled transaction, reported or discarded.
C8_BalancesFollowPulled ==
    \A i \in 1..Len(accounts) :
        accounts[i].balance =
            config_accounts[i].balance
            + SumAmounts(pulled, 2, accounts[i].id)
            - SumAmounts(pulled, 1, accounts[i].id)

C8_Witness ==
    /\ pc = "returned"
    /\ filter_from # None
    /\ \E k \in 1..Len(pulled) :
          pulled[k][1] # Unwrap(filter_from) /\ pulled[k][3] > 0

\* C9: a run that was asked for N transactions, whose generator is not
\* exhausted, and that returns normally returns N of them: a shorter result
\* is not returned as if it were complete.
C9_NoSilentUnderReport ==
    (pc = "returned" /\ count # None /\ ~AllZero(config_accounts)) =>
        Len(transactions) = Unwrap(count)

\* C10: while generating, the run is bounded: by a count, or by a generator
\* that is exhausted.
C10_BoundedGeneration ==
    pc = "gen" => (count # None \/ AllZero(accounts))

\* What makes a state that violates C10_BoundedGeneration final: with no
\* count and a pool that can still send, a pull leaves the run generating
\* over a pool that can still send.
UnboundedRunKeepsGenerating ==
    [][(pc = "gen" /\ count = None /\ ~AllZero(accounts)) =>
          (pc' = "gen" /\ ~AllZero(accounts'))]_vars


\* C11: a pool of fewer than 2 accounts never gets to generate, and a pull
\* over a pool whose balances are all 0 ends the sequence: a degenerate pool
\* yields nothing and its run is over after one step of generation.
NoSender(accs) == \A i \in 1..Len(accs) : accs[i].balance = 0

C11_DegenerateStep ==
    (pc = "gen" /\ (Len(config_accounts) < 2 \/ NoSender(config_accounts))) =>
        pc' \in {"returned", "panicked"}

C11_DegenerateYieldsNothing ==
    /\ Len(config_accounts) < 2 => pc \in {"main", "panicked"}
    /\ (Len(config_accounts) < 2 \/ NoSender(config_accounts)) => pulled = <<>>

C11_DegenerateEnds ==
    [][C11_DegenerateStep]_vars /\ []C11_DegenerateYieldsNothing

C11_Witness ==
    /\ Len(config_accounts) >= 2
    /\ NoSender(config_accounts)
    /\ count = None
    /\ pc = "returned"

\* C12: with a generator name other than "random" and "winner-loser" the run
\* aborts with nothing generated, no balance changed and no file created.
C12_UnknownGeneratorAborts ==
    generator_type \notin {"random", "winner-loser"} =>
        /\ pc \in {"main", "panicked"}
        /\ pulled = <<>>
        /\ transactions = <<>>
        /\ accounts = config_accounts
        /\ files = <<>>
        /\ report = None

C12_Witness ==
    /\ generator_type = "other"
    /\ Len(config_accounts) >= 2
    /\ ~NoSender(config_accounts)
    /\ pc = "panicked"

\* C13: the k-th reported request (from 0) has id k, whatever the filter
\* discarded, and the ids run on from one output file to the next.
RECURSIVE Concat(_)
Concat(seqs) ==
    IF seqs = <<>> THEN <<>> ELSE Head(seqs) \o Concat(Tail(seqs))

C13_IdsConsecutive ==
    /\ \A k \in 1..Len(transactions) : transactions[k].id = k - 1
    /\ \A k \in 1..Len(Concat(files)) : Concat(files)[k].id = k - 1

C13_Witness ==
    /\ pc = "done"
    /\ Len(files) >= 2
    /\ files[2][1].id >= 1
    /\ filter_from # None
    /\ pulled[1][1] # Unwrap(filter_from)

\* C14: a file is written, and the balances are reported, only once
\* generation is over (the count is used up or the generator is exhausted);
\* the balances reported are the balances generation ended with.
C14_GenerationBeforeOutput ==
    (files # <<>> \/ report # None) =>
        /\ pc = "done"
        /\ \/ (n # None /\ Unwrap(n) = 0)
           \/ NoSender(accounts)
        /\ report =
             Some([i \in 1..Len(accounts) |->
                      <<accounts[i].id, accounts[i].balance>>])

C14_Witness ==
    /\ pc = "done"
    /\ Len(files) >= 1
    /\ report # None
    /\ accounts # config_accounts

\* C15: the pool keeps its length and its ids at their positions; only
\* balances change.
C15_PoolFrame ==
    /\ Len(accounts) = Len(config_accounts)
    /\ \A i \in 1..Len(accounts) : accounts[i].id = config_accounts[i].id

C15_Witness ==
    /\ Len(accounts) >= 3
    /\ Len(pulled) >= 2
    /\ \A i \in 1..2 : accounts[i].balance # config_accounts[i].balance


\* C16: a transaction with amount 0 is reported like any other: it uses up
\* one of the count, it passes the filter when its sender matches, and it is
\* in the collected requests and in the output files.
ZeroValued(requests) == SelectSeq(requests, LAMBDA q : q.value = "0x0")

ZeroKept(txs, ff) ==
    SelectSeq(txs, LAMBDA tx : tx[3] = 0 /\ (ff = None \/ tx[1] = Unwrap(ff)))

C16_ZeroAmountKept ==
    /\ Len(ZeroValued(transactions)) = Len(ZeroKept(pulled, filter_from))
    /\ (pc = "gen" /\ count # None) =>
          Unwrap(n) + Len(pulled) = Unwrap(count)
    /\ pc = "done" =>
          Len(ZeroValued(Concat(files))) = Len(ZeroKept(pulled, filter_from))

C16_Witness ==
    /\ pc = "done"
    /\ count # None
    /\ filter_from # None
    /\ Len(ZeroValued(Concat(files))) >= 1
    /\ Len(ZeroValued(Concat(files))) < Len(Concat(files))

\* C17: the rendered value is "0x" followed by the hexadecimal digits of the
\* amount, without leading zeros ("0x0" for 0): reading the digits back
\* gives the amount.
HexDigitValue(ch) == CHOOSE v \in 0..15 : HexDigits[v + 1] = ch

RECURSIVE ParseHex(_, _)
ParseHex(str, acc) ==
    IF Len(str) = 0 THEN acc
    ELSE ParseHex(Tail(str), 16 * acc + HexDigitValue(Head(str)))

C17_HexRendering ==
    rendered # None =>
        LET str == Unwrap(rendered)
            digits == SubSeq(str, 3, Len(str))
        IN  /\ Len(str) >= 3
            /\ SubSeq(str, 1, 2) = "0x"
            /\ ParseHex(digits, 0) = amount
            /\ (Head(digits) = "0") => (amount = 0 /\ str = "0x0")

C17_Witness ==
    /\ rendered # None
    /\ amount >= 256
    /\ amount % 16 >= 10

\* C18: every reported request carries the password configured for its
\* sender, and no run panics at the password lookup (a run that panics
\* before main reads the chunk size has pulled nothing).
C18_SenderPassword ==
    /\ \A k \in 1..Len(transactions) :
          /\ transactions[k].from \in PoolIds(config_accounts)
          /\ transactions[k].password = "pw-" \o transactions[k].from
    /\ (pc = "panicked" /\ chunk_size = Unread) => pulled = <<>>

C18_Witness ==
    /\ Len(transactions) >= 2
    /\ transactions[1].from # transactions[2].from

\* C19: in a run that completes, the output files in order concatenate to
\* the reported sequence; every file but the last holds chunk-size requests,
\* no file is empty, and without a chunk size a non-empty output is one file.
C19_ChunksPartition ==
    pc = "done" =>
        LET size == IF chunk_size = None THEN Len(transactions)
                    ELSE Unwrap(chunk_size)
        IN  /\ Concat(files) = transactions
            /\ \A i \in 1..Len(files) : 1 <= Len(files[i]) /\ Len(files[i]) <= size
            /\ \A i \in 1..(Len(files) - 1) : Len(files[i]) = size
            /\ (chunk_size = None /\ transactions # <<>>) => Len(files) = 1

C19_Witness ==
    /\ pc = "done"
    /\ chunk_size = Some(2)
    /\ Len(transactions) = 3
    /\ Len(files) = 2

\* C20: a run over a pool that can generate, which reports no transaction
\* and has no chunk size configured, completes: it writes no file and
\* reports the final balances.
C20_EmptyOutputHandled ==
    (/\ pc \in {"done", "panicked"}
     /\ chunk_size = None
     /\ ~NoSender(config_accounts)
     /\ transactions = <<>>) =>
        /\ pc = "done"
        /\ files = <<>>
        /\ report # None


=============================================================================
